---- MODULE Spec2Model ----
(***************************************************************************)
(* The streaming HTTP/1.1 response encoder of src/server/encode.rs.        *)
(*                                                                         *)
(* Bytes are their numeric values.  One action per function of Encoder;    *)
(* pc is the function the current poll_read call is executing ("idle"      *)
(* between calls, "failed" once a call has returned an error and the       *)
(* driver has dropped the encoder).  A tail call `return self.f(cx, buf)`  *)
(* is the assignment pc' = "f".                                            *)
(***************************************************************************)
EXTENDS Integers, Sequences, FiniteSets, TLC

(* ---------------------------------------------------------------- bounds *)
\* most bytes the body source holds
MaxSrc == 3
\* largest declared body length
MaxLen == 3
\* most times the body source answers Pending in one run
MaxPending == 1
\* a destination buffer larger than any whole response of the model
BigBuf == 256

(* ------------------------------------------------------- program constants *)
CR == 13
LF == 10
CRLF_LENGTH == 2

(* ------------------------------------------------------------ sequences *)
Min(a, b) == IF a <= b THEN a ELSE b

Take(s, n) == SubSeq(s, 1, n)

Drop(s, n) == SubSeq(s, n + 1, Len(s))

\* vec![0; n]
Zeros(n) == [i \in 1..n |-> 0]

\* dst[at..at + data.len()].copy_from_slice(data), `at` a 0-based offset
CopyInto(dst, at, data) ==
    [i \in 1..Len(dst) |->
        IF i > at /\ i <= at + Len(data) THEN data[i - at] ELSE dst[i]]

RECURSIVE Concat(_)
Concat(ss) == IF ss = <<>> THEN <<>> ELSE Head(ss) \o Concat(Tail(ss))

(* ----------------------------------------------------------- formatting *)
\* format_args!("{}", n) of an unsigned integer: decimal, no leading zeros
RECURSIVE Dec(_)
Dec(n) == IF n < 10 THEN <<48 + n>> ELSE Dec(n \div 10) \o <<48 + (n % 10)>>

\* one digit of format!("{:X}", n): '0'..'9', 'A'..'F'
HexDigit(d) == IF d < 10 THEN 48 + d ELSE 55 + d

\* format!("{:X}", n): uppercase hexadecimal, no prefix, no leading zeros
RECURSIVE HexUpper(_)
HexUpper(n) ==
    IF n < 16 THEN <<HexDigit(n)>>
    ELSE HexUpper(n \div 16) \o <<HexDigit(n % 16)>>

(* ------------------------------------------------------------- response *)
\* Option<usize>
None == [some |-> FALSE, val |-> 0]
Some(n) == [some |-> TRUE, val |-> n]

\* StatusCode::canonical_reason
canonical_reason(status) ==
    IF status = 200 THEN <<79, 75>>                        \* "OK"
    ELSE <<78, 111, 116, 32, 70, 111, 117, 110, 100>>      \* "Not Found"

\* fmt_http_date(SystemTime::now()): an IMF-fixdate, 29 bytes
\* "Thu, 01 Jan 1970 00:00:00 GMT"
fmt_http_date ==
    <<84, 104, 117, 44, 32, 48, 49, 32, 74, 97, 110, 32, 49, 57, 55, 48, 32,
      48, 48, 58, 48, 48, 58, 48, 48, 32, 71, 77, 84>>

\* the header collections a response of the model may carry:
\* none, or the single header "x-a: b"
HeaderSets == { <<>>, << [name |-> <<120, 45, 97>>, values |-> << <<98>> >>] >> }

Responses ==
    [status : {200},
     len : {None} \cup {Some(n) : n \in 0..MaxLen},
     headers : HeaderSets]

\* the bytes the body source holds: "a", "b", "c", ...
Sources == { [i \in 1..k |-> 96 + i] : k \in 0..MaxSrc }

\* the errors a read of the body source may fail with
Errors == {"BrokenPipe", "TimedOut"}

\* the destination buffer sizes the driver may pass to a call
BufSizes == {1, 2, 7, BigBuf}

(* --------------------------------------------------------- poll results *)
Ready(n) == [kind |-> "Ready", n |-> n, err |-> "none"]
Pending == [kind |-> "Pending", n |-> 0, err |-> "none"]
Err(e) == [kind |-> "Err", n |-> 0, err |-> e]
NoResult == [kind |-> "None", n |-> 0, err |-> "none"]

\* a cursor that is not stored
CursorLost(data) == [some |-> FALSE, data |-> <<>>, pos |-> 0]

\* Option<io::Cursor<Vec<u8>>>
NoChunk == [some |-> FALSE, data |-> <<>>, pos |-> 0]
Cursor(data) == [some |-> TRUE, data |-> data, pos |-> 0]

VARIABLES
    res,              \* Encoder.res: status, len(), headers
    src,              \* Encoder.res as a byte source: the bytes not read yet
    state,            \* Encoder.state
    bytes_read,       \* Encoder.bytes_read
    head,             \* Encoder.head
    head_bytes_read,  \* Encoder.head_bytes_read
    body_len,         \* Encoder.body_len
    body_bytes_read,  \* Encoder.body_bytes_read
    chunk,            \* Encoder.chunk
    is_last,          \* Encoder.is_last
    pc,               \* the function the current call is in
    buf,              \* the destination buffer of the current (or last) call
    ret,              \* what the last call returned
    out,              \* every byte delivered to the driver so far
    reads,            \* the byte groups the source has produced, in order
    polls,            \* results of the source reads of the current call
    pendings          \* how often the source has answered Pending

vars == <<res, src, state, bytes_read, head, head_bytes_read, body_len,
          body_bytes_read, chunk, is_last, pc, buf, ret, out, reads, polls,
          pendings>>

(* ----------------------------------------------------------------- Init *)
\* Encoder::encode(res)
Init ==
    /\ res \in Responses
    /\ src \in Sources
    /\ state = "Start"
    /\ bytes_read = 0
    /\ head = <<>>
    /\ head_bytes_read = 0
    /\ body_len = 0
    /\ body_bytes_read = 0
    /\ chunk = NoChunk
    /\ is_last = FALSE
    /\ pc = "idle"
    /\ buf = <<>>
    /\ ret = NoResult
    /\ out = <<>>
    /\ reads = <<>>
    /\ polls = <<>>
    /\ pendings = 0

(* ------------------------------------------------------------ the head *)
\* "HTTP/1.1 {status} {reason}\r\n"
StatusLine(r) ==
    <<72, 84, 84, 80, 47, 49, 46, 49, 32>> \o Dec(r.status) \o <<32>>
        \o canonical_reason(r.status) \o <<CR, LF>>

\* "content-length: {len}\r\n" when res.len() is Some(len),
\* "transfer-encoding: chunked\r\n" otherwise
LengthLine(r) ==
    IF r.len.some
    THEN <<99, 111, 110, 116, 101, 110, 116, 45, 108, 101, 110, 103, 116,
           104, 58, 32>> \o Dec(r.len.val) \o <<CR, LF>>
    ELSE <<116, 114, 97, 110, 115, 102, 101, 114, 45, 101, 110, 99, 111,
           100, 105, 110, 103, 58, 32, 99, 104, 117, 110, 107, 101, 100>>
           \o <<CR, LF>>

\* "date: {date}\r\n"
DateLine == <<100, 97, 116, 101, 58, 32>> \o fmt_http_date \o <<CR, LF>>

\* "{header}: {value}\r\n" for every value of one header
RECURSIVE ValueLines(_, _)
ValueLines(name, values) ==
    IF values = <<>> THEN <<>>
    ELSE name \o <<58, 32>> \o Head(values) \o <<CR, LF>>
         \o ValueLines(name, Tail(values))

\* the header lines, in iteration order
RECURSIVE HeaderLines(_)
HeaderLines(hs) ==
    IF hs = <<>> THEN <<>>
    ELSE ValueLines(Head(hs).name, Head(hs).values) \o HeaderLines(Tail(hs))

\* everything encode_start writes into self.head
SerializeHead(r) ==
    StatusLine(r) \o LengthLine(r) \o DateLine \o HeaderLines(r.headers)
        \o <<CR, LF>>

(* ------------------------------------------------------ call and return *)
\* a call returns r to the driver, which takes the first r.n bytes of the
\* destination buffer b (no more than the buffer holds)
Return(r, b) ==
    /\ ret' = r
    /\ buf' = b
    /\ pc' = IF r.kind = "Err" THEN "failed" ELSE "idle"
    /\ out' = IF r.kind = "Ready" THEN out \o Take(b, Min(r.n, Len(b))) ELSE out

\* `return self.f(cx, buf)`
TailCall(f, b) ==
    /\ pc' = f
    /\ buf' = b
    /\ UNCHANGED <<ret, out>>

\* what the body source may answer to a read into a range of rangeLen bytes:
\* some bytes (at least one, no more than fit or remain), zero bytes at
\* end-of-data or for an empty range, Pending, or an error
SourceResults(rangeLen) ==
    {Ready(n) : n \in 1..Min(rangeLen, Len(src))}
    \cup (IF rangeLen = 0 \/ src = <<>> THEN {Ready(0)} ELSE {})
    \cup (IF pendings < MaxPending THEN {Pending} ELSE {})
    \cup {Err(e) : e \in Errors}

\* the effect of one read on the source and on the record of its answers
SourceRead(r) ==
    /\ polls' = Append(polls, r)
    /\ pendings' = IF r.kind = "Pending" THEN pendings + 1 ELSE pendings
    /\ src' = IF r.kind = "Ready" THEN Drop(src, r.n) ELSE src
    /\ reads' = IF r.kind = "Ready" THEN Append(reads, Take(src, r.n)) ELSE reads

\* OnPending that reports the count even when it is zero
OnPendingMut(br) == Ready(br)

\* the arm `Poll::Pending => ...` of encode_body and encode_uncomputed_chunked
OnPending(br) == IF br = 0 THEN Pending ELSE Ready(br)

\* Dispatch that starts over in Head: the head is serialized on every call
DispatchRestart(st) ==
    CASE st = "Start" -> "encode_start"
      [] st = "Head" -> "encode_start"
      [] st = "Body" -> "encode_body"
      [] st = "UncomputedChunked" -> "encode_uncomputed_chunked"
      [] st = "ComputedChunked" -> "encode_computed_chunked"
      [] st = "Done" -> "done"

\* Dispatch with Done treated as Body
DispatchMut(st) ==
    CASE st = "Start" -> "encode_start"
      [] st = "Head" -> "encode_head"
      [] st = "Body" -> "encode_body"
      [] st = "UncomputedChunked" -> "encode_uncomputed_chunked"
      [] st = "ComputedChunked" -> "encode_computed_chunked"
      [] st = "Done" -> "encode_body"

\* the match in poll_read
Dispatch(st) ==
    CASE st = "Start" -> "encode_start"
      [] st = "Head" -> "encode_head"
      [] st = "Body" -> "encode_body"
      [] st = "UncomputedChunked" -> "encode_uncomputed_chunked"
      [] st = "ComputedChunked" -> "encode_computed_chunked"
      [] st = "Done" -> "done"

\* Encoder::poll_read, up to the call of the state's function
PollRead(size) ==
    /\ pc = "idle"
    /\ bytes_read' = 0
    /\ polls' = <<>>
    /\ IF Dispatch(state) = "done"
       THEN Return(Ready(0), Zeros(size))
       ELSE /\ pc' = Dispatch(state)
            /\ buf' = Zeros(size)
            /\ ret' = NoResult
            /\ UNCHANGED out
    /\ UNCHANGED <<res, src, state, head, head_bytes_read, body_len,
                   body_bytes_read, chunk, is_last, reads, pendings>>

\* Encoder::encode_start
EncodeStart ==
    /\ pc = "encode_start"
    /\ state' = "Head"
    /\ head' = head \o SerializeHead(res)
    /\ TailCall("encode_head", buf)
    /\ UNCHANGED <<res, src, bytes_read, head_bytes_read, body_len,
                   body_bytes_read, chunk, is_last, reads, polls, pendings>>

\* BodyState with the length ignored: every body is sent in chunks
BodyStateMut(len) == "UncomputedChunked"

\* the state the head hands over to: match self.res.len()
BodyState(len) == IF len.some THEN "Body" ELSE "UncomputedChunked"

\* Encoder::encode_head
EncodeHead ==
    /\ pc = "encode_head"
    /\ LET head_len == Len(head)
           len == Min(head_len - head_bytes_read, Len(buf))
           b == CopyInto(buf, 0, SubSeq(head, head_bytes_read + 1,
                                        head_bytes_read + len))
       IN /\ bytes_read' = bytes_read + len
          /\ head_bytes_read' = head_bytes_read + len
          /\ IF head_bytes_read + len = head_len
             THEN /\ state' = BodyState(res.len)
                  /\ body_len' = IF res.len.some THEN res.len.val ELSE body_len
                  /\ TailCall(Dispatch(BodyState(res.len)), b)
             ELSE /\ Return(Ready(bytes_read + len), b)
                  /\ UNCHANGED <<state, body_len>>
    /\ UNCHANGED <<res, src, head, body_bytes_read, chunk, is_last, reads,
                   polls, pendings>>

(* ------------------------------------------------- the fixed-length body *)
\* UpperBound without the bytes of the body already read
UpperBoundMut(br, bl, bbr, buflen) == Min(br + bl, buflen)

\* upper_bound: the end of the range of buf the source may fill
UpperBound(br, bl, bbr, buflen) == Min(br + bl - bbr, buflen)

\* AfterBodyRead that finishes only on a read of zero bytes
AfterBodyReadLazy(bl, bbr, n) == IF n = 0 THEN "Done" ELSE "Body"

\* AfterBodyRead without the arm for an unexpected end-of-data
AfterBodyReadMut(bl, bbr, n) == IF bl = bbr THEN "Done" ELSE "Body"

\* what encode_body does after a read of n bytes, the counters updated:
\* finish (all of body_len read, or end-of-data before that) or read again
AfterBodyRead(bl, bbr, n) ==
    IF bl = bbr THEN "Done"
    ELSE IF n = 0 THEN "Done"
    ELSE "Body"

\* encode_body: no room left in buf
EncodeBodyFull ==
    /\ bytes_read = Len(buf)
    /\ Return(Ready(bytes_read), buf)
    /\ UNCHANGED <<res, src, state, bytes_read, head, head_bytes_read,
                   body_len, body_bytes_read, chunk, is_last, reads, polls,
                   pendings>>

\* encode_body: the source read n bytes into buf[bytes_read..upper_bound]
EncodeBodyReady(n) ==
    /\ bytes_read # Len(buf)
    /\ LET upper_bound ==
               UpperBound(bytes_read, body_len, body_bytes_read, Len(buf))
           b == CopyInto(buf, bytes_read, Take(src, n))
           next == AfterBodyRead(body_len, body_bytes_read + n, n)
       IN /\ Ready(n) \in SourceResults(upper_bound - bytes_read)
          /\ SourceRead(Ready(n))
          /\ body_bytes_read' = body_bytes_read + n
          /\ bytes_read' = bytes_read + n
          /\ state' = next
          /\ IF next = "Done"
             THEN Return(Ready(bytes_read + n), b)
             ELSE TailCall("encode_body", b)
    /\ UNCHANGED <<res, head, head_bytes_read, body_len, chunk, is_last>>

\* encode_body: the source is not ready
EncodeBodyPending ==
    /\ bytes_read # Len(buf)
    /\ Pending \in SourceResults(
           UpperBound(bytes_read, body_len, body_bytes_read, Len(buf))
               - bytes_read)
    /\ SourceRead(Pending)
    /\ Return(OnPending(bytes_read), buf)
    /\ UNCHANGED <<res, state, bytes_read, head, head_bytes_read, body_len,
                   body_bytes_read, chunk, is_last>>

\* EncodeBodyErr that gives the body up as finished on a failed read
EncodeBodyErrMut(e) ==
    /\ bytes_read # Len(buf)
    /\ Err(e) \in SourceResults(
           UpperBound(bytes_read, body_len, body_bytes_read, Len(buf))
               - bytes_read)
    /\ SourceRead(Err(e))
    /\ Return(Err(e), buf)
    /\ state' = "Done"
    /\ UNCHANGED <<res, bytes_read, head, head_bytes_read, body_len,
                   body_bytes_read, chunk, is_last>>

\* encode_body: the read of the source failed with e
EncodeBodyErr(e) ==
    /\ bytes_read # Len(buf)
    /\ Err(e) \in SourceResults(
           UpperBound(bytes_read, body_len, body_bytes_read, Len(buf))
               - bytes_read)
    /\ SourceRead(Err(e))
    /\ Return(Err(e), buf)
    /\ UNCHANGED <<res, state, bytes_read, head, head_bytes_read, body_len,
                   body_bytes_read, chunk, is_last>>

\* Encoder::encode_body
EncodeBody ==
    /\ pc = "encode_body"
    /\ \/ EncodeBodyFull
       \/ \E n \in 0..MaxSrc : EncodeBodyReady(n)
       \/ EncodeBodyPending
       \/ \E e \in Errors : EncodeBodyErr(e)

(* ------------------------------------------------------ the chunked body *)
\* hex length, CRLF, payload, CRLF
Frame(payload) ==
    HexUpper(Len(payload)) \o <<CR, LF>> \o payload \o <<CR, LF>>

\* total_chunk_size
TotalChunkSize(br, n) ==
    br + Len(HexUpper(n)) + CRLF_LENGTH + n + CRLF_LENGTH

\* "See if we can write the chunk out in one go"
FitsInOneGo(total_chunk_size, buffer_remaining) ==
    total_chunk_size < buffer_remaining

\* the vector the else branch builds: vec![0; total_chunk_size] with the
\* framed chunk copied to its front
StagedChunk(total_chunk_size, payload) ==
    CopyInto(Zeros(total_chunk_size), 0, Frame(payload))

\* encode_uncomputed_chunked: no room left in buf
EncodeUncomputedFull ==
    /\ Len(buf) - bytes_read = 0
    /\ Return(Ready(bytes_read), buf)
    /\ UNCHANGED <<res, src, state, bytes_read, head, head_bytes_read,
                   body_len, body_bytes_read, chunk, is_last, reads, polls,
                   pendings>>

\* encode_uncomputed_chunked: the source read n bytes into chunk_buf
EncodeUncomputedReady(n) ==
    /\ Len(buf) - bytes_read # 0
    /\ LET buffer_remaining == Len(buf) - bytes_read
           payload == Take(src, n)
           total_chunk_size == TotalChunkSize(bytes_read, n)
       IN /\ Ready(n) \in SourceResults(buffer_remaining)
          /\ SourceRead(Ready(n))
          /\ IF FitsInOneGo(total_chunk_size, buffer_remaining)
             THEN /\ bytes_read' = bytes_read + Len(Frame(payload))
                  /\ state' = IF n = 0 THEN "Done" ELSE state
                  /\ Return(Ready(bytes_read + Len(Frame(payload))),
                            CopyInto(buf, bytes_read, Frame(payload)))
                  /\ UNCHANGED <<chunk, is_last>>
             ELSE /\ bytes_read' = bytes_read + 2
                  /\ state' = "ComputedChunked"
                  /\ chunk' = Cursor(StagedChunk(total_chunk_size, payload))
                  /\ is_last' = (n = 0)
                  /\ TailCall("encode_computed_chunked", buf)
    /\ UNCHANGED <<res, head, head_bytes_read, body_len, body_bytes_read>>

\* encode_uncomputed_chunked: the source is not ready
EncodeUncomputedPending ==
    /\ Len(buf) - bytes_read # 0
    /\ Pending \in SourceResults(Len(buf) - bytes_read)
    /\ SourceRead(Pending)
    /\ Return(OnPending(bytes_read), buf)
    /\ UNCHANGED <<res, state, bytes_read, head, head_bytes_read, body_len,
                   body_bytes_read, chunk, is_last>>

\* encode_uncomputed_chunked: the read of the source failed with e
EncodeUncomputedErr(e) ==
    /\ Len(buf) - bytes_read # 0
    /\ Err(e) \in SourceResults(Len(buf) - bytes_read)
    /\ SourceRead(Err(e))
    /\ Return(Err(e), buf)
    /\ UNCHANGED <<res, state, bytes_read, head, head_bytes_read, body_len,
                   body_bytes_read, chunk, is_last>>

\* Encoder::encode_uncomputed_chunked
EncodeUncomputedChunked ==
    /\ pc = "encode_uncomputed_chunked"
    /\ \/ EncodeUncomputedFull
       \/ \E n \in 0..MaxSrc : EncodeUncomputedReady(n)
       \/ EncodeUncomputedPending
       \/ \E e \in Errors : EncodeUncomputedErr(e)

\* AfterChunkRead that ends the response after any drained chunk
AfterChunkReadAlwaysDone(br, st, last) == IF br = 0 THEN "Done" ELSE st

\* AfterChunkRead that leaves ComputedChunked without looking at the cursor
AfterChunkReadEager(br, st, last) ==
    IF last THEN "Done" ELSE "UncomputedChunked"

\* AfterChunkRead that never leaves ComputedChunked
AfterChunkReadStuck(br, st, last) == st

\* the state encode_computed_chunked leaves the encoder in, br the updated
\* bytes_read
AfterChunkRead(br, st, last) ==
    IF br = 0
    THEN (IF last THEN "Done" ELSE "UncomputedChunked")
    ELSE st

\* Encoder::encode_computed_chunked: io::Cursor's poll_read copies
\* min(buf.len(), bytes left in the chunk) bytes to the start of buf and is
\* always Ready
EncodeComputedChunked ==
    /\ pc = "encode_computed_chunked"
    /\ chunk.some
    /\ LET n == Min(Len(buf), Len(chunk.data) - chunk.pos)
           b == CopyInto(buf, 0, SubSeq(chunk.data, chunk.pos + 1,
                                        chunk.pos + n))
       IN /\ chunk' = [chunk EXCEPT !.pos = chunk.pos + n]
          /\ bytes_read' = bytes_read + n
          /\ state' = AfterChunkRead(bytes_read + n, state, is_last)
          /\ Return(Ready(bytes_read + n), b)
    /\ UNCHANGED <<res, src, head, head_bytes_read, body_len,
                   body_bytes_read, is_last, reads, polls, pendings>>

(* ----------------------------------------------------------------- Spec *)
Next ==
    \/ \E size \in BufSizes : PollRead(size)
    \/ EncodeStart
    \/ EncodeHead
    \/ EncodeBody
    \/ EncodeUncomputedChunked
    \/ EncodeComputedChunked

Spec == Init /\ [][Next]_vars

(* ------------------------------------------------------------ the claims *)
IsPrefix(a, b) == Len(a) <= Len(b) /\ a = Take(b, Len(a))

\* the chunk frames of a sequence of byte groups, concatenated
RECURSIVE Frames(_)
Frames(gs) == IF gs = <<>> THEN <<>> ELSE Frame(Head(gs)) \o Frames(Tail(gs))

\* the byte stream the response and the source's answers determine
Canonical ==
    SerializeHead(res)
        \o (IF res.len.some THEN Concat(reads) ELSE Frames(reads))

\* C1: buffer-size independence.  Between calls the bytes delivered so far
\* are a prefix of the stream that the head and the source's read results
\* alone determine, and the whole of it once the encoder is Done, whatever
\* buffer sizes the calls were given, in fixed-length and in chunked mode.
BufferSizeIndependence ==
    pc = "idle" =>
        /\ IsPrefix(out, Canonical)
        /\ state = "Done" => out = Canonical

\* an uppercase hexadecimal digit
IsHexUpper(b) == b \in 48..57 \/ b \in 65..70

\* the number a sequence of uppercase hexadecimal digits denotes
RECURSIVE HexValue(_)
HexValue(ds) ==
    IF ds = <<>> THEN 0
    ELSE LET d == ds[Len(ds)]
         IN 16 * HexValue(Take(ds, Len(ds) - 1))
                + (IF d <= 57 THEN d - 48 ELSE d - 55)

\* the offset of the first CR of bs (Len(bs) + 1 when there is none)
FirstCR(bs) ==
    IF \E i \in 1..Len(bs) : bs[i] = CR
    THEN CHOOSE i \in 1..Len(bs) : bs[i] = CR /\ \A j \in 1..(i - 1) : bs[j] # CR
    ELSE Len(bs) + 1

\* a chunked-body decoder: the payloads of the chunks before the terminal
\* zero-length chunk, and whether bs is a well-formed chunked body with
\* nothing after the terminal chunk
RECURSIVE ChunkedDecode(_)
ChunkedDecode(bs) ==
    LET c == FirstCR(bs)
        digits == Take(bs, c - 1)
        n == HexValue(digits)
        rest == Drop(bs, c + 1 + n + 2)
        bad == [ok |-> FALSE, groups |-> <<>>]
    IN IF \/ digits = <<>>
          \/ \E i \in 1..Len(digits) : ~IsHexUpper(digits[i])
          \/ (Len(digits) > 1 /\ digits[1] = 48)
          \/ Len(bs) < c + 1 + n + 2
       THEN bad
       ELSE IF \/ bs[c + 1] # LF
               \/ bs[c + 1 + n + 1] # CR
               \/ bs[c + 1 + n + 2] # LF
            THEN bad
            ELSE IF n = 0
                 THEN [ok |-> rest = <<>>, groups |-> <<>>]
                 ELSE LET d == ChunkedDecode(rest)
                      IN [ok |-> d.ok,
                          groups |-> <<SubSeq(bs, c + 2, c + 1 + n)>> \o d.groups]

\* C2: chunk round-trip.  Once a response without known length is Done, the
\* bytes delivered after the head are a well-formed chunked body (uppercase
\* hexadecimal length, CRLF, payload, CRLF per chunk, ended by "0\r\n\r\n"
\* and nothing else) whose payloads are the byte groups the source
\* produced, in order.
ChunkRoundTrip ==
    (pc = "idle" /\ state = "Done" /\ ~res.len.some) =>
        LET d == ChunkedDecode(Drop(out, Len(head)))
        IN /\ d.ok
           /\ d.groups \o << <<>> >> = reads

\* C3: head before body.  Between calls the delivered stream is a prefix of
\* the serialized head, or it begins with the whole head, unmodified: the
\* head bytes a call placed in the buffer are still there when it returns.
HeadBeforeBody ==
    pc = "idle" =>
        \/ IsPrefix(out, SerializeHead(res)) /\ state \in {"Start", "Head"}
        \/ IsPrefix(SerializeHead(res), out)

\* the number a sequence of decimal digits denotes
RECURSIVE DecValue(_)
DecValue(ds) ==
    IF ds = <<>> THEN 0
    ELSE 10 * DecValue(Take(ds, Len(ds) - 1)) + (ds[Len(ds)] - 48)

\* "content-length: "
ContentLengthName ==
    <<99, 111, 110, 116, 101, 110, 116, 45, 108, 101, 110, 103, 116, 104, 58, 32>>

\* "transfer-encoding: chunked\r\n"
TransferEncodingChunked ==
    <<116, 114, 97, 110, 115, 102, 101, 114, 45, 101, 110, 99, 111, 100, 105,
      110, 103, 58, 32, 99, 104, 117, 110, 107, 101, 100, 13, 10>>

\* line starts at offset i of bs: i is 0 or follows a CRLF
StartsAt(bs, i, line) ==
    /\ i + Len(line) <= Len(bs)
    /\ SubSeq(bs, i + 1, i + Len(line)) = line
    /\ i = 0 \/ (i >= 2 /\ bs[i - 1] = CR /\ bs[i] = LF)

\* bs has the line "content-length: <decimal n>\r\n"
DeclaresContentLength(bs, n) ==
    \E i \in 0..Len(bs) :
        /\ StartsAt(bs, i, ContentLengthName)
        /\ LET rest == Drop(bs, i + Len(ContentLengthName))
               c == FirstCR(rest)
           IN /\ c > 1
              /\ c < Len(rest)
              /\ rest[c + 1] = LF
              /\ \A j \in 1..(c - 1) : rest[j] \in 48..57
              /\ DecValue(Take(rest, c - 1)) = n

\* bs has a line that starts with "content-length: "
HasContentLength(bs) == \E i \in 0..Len(bs) : StartsAt(bs, i, ContentLengthName)

\* bs has the line "transfer-encoding: chunked\r\n"
DeclaresChunked(bs) ==
    \E i \in 0..Len(bs) : StartsAt(bs, i, TransferEncodingChunked)

ChunkedStates == {"UncomputedChunked", "ComputedChunked"}

\* what holds of every state for the length mode
LengthModeInvariant ==
    /\ head # <<>> =>
          IF res.len.some
          THEN DeclaresContentLength(head, res.len.val) /\ ~DeclaresChunked(head)
          ELSE DeclaresChunked(head) /\ ~HasContentLength(head)
    /\ res.len.some =>
          /\ state \notin ChunkedStates
          /\ pc \notin {"encode_uncomputed_chunked", "encode_computed_chunked"}
          /\ ~chunk.some
          /\ pc = "idle" /\ Len(out) >= Len(head) =>
                Drop(out, Len(head)) = Concat(reads)
    /\ ~res.len.some => state # "Body" /\ pc # "encode_body"

\* what holds of every step for the length mode
LengthModeStep ==
    /\ (state' = "Body" /\ state # "Body") =>
          /\ state = "Head"
          /\ res.len.some
          /\ head_bytes_read < Len(head)
          /\ head_bytes_read' = Len(head)
    /\ (state' = "UncomputedChunked" /\ state \notin ChunkedStates) =>
          /\ state = "Head"
          /\ ~res.len.some
          /\ head_bytes_read < Len(head)
          /\ head_bytes_read' = Len(head)
    /\ state' = "ComputedChunked" => state \in ChunkedStates
    /\ state = "Body" => state' \in {"Body", "Done"}
    /\ state \in ChunkedStates => state' \in ChunkedStates \cup {"Done"}
    /\ (state = "Head" /\ state' # "Head") =>
          state' = (IF res.len.some THEN "Body" ELSE "UncomputedChunked")

\* C4: length-mode selection.  A response with known length L declares
\* "content-length: L" in its head, never enters UncomputedChunked or
\* ComputedChunked, stages no chunk and delivers the source's bytes unframed;
\* a response without one declares "transfer-encoding: chunked" and never
\* enters Body.  The body state is chosen in the step in which
\* head_bytes_read reaches the length of the head, and the encoder never
\* changes from one path to the other.
LengthModeSelection == [](LengthModeInvariant) /\ [][LengthModeStep]_vars

\* C4 witness: a response with known length has delivered body bytes in the
\* call in which the head was completed
LengthModeWitness ==
    /\ pc = "idle"
    /\ res.len.some
    /\ state = "Body"
    /\ Len(out) > Len(head)
    /\ head # <<>>

\* C5: total byte conservation, fixed length.  For a response with known
\* length L the bytes delivered after the head are, between calls, a prefix
\* of the first min(L, S) bytes of the source (S the number of bytes the
\* source holds in all), and exactly those bytes once the encoder is Done.
FixedLengthConservation ==
    (pc = "idle" /\ res.len.some /\ Len(out) >= Len(head)) =>
        LET source == Concat(reads) \o src
            expected == Take(source, Min(res.len.val, Len(source)))
            body == Drop(out, Len(head))
        IN /\ IsPrefix(body, expected)
           /\ state = "Done" => body = expected

\* C5 witness: a body of at least two bytes was delivered whole, from
\* several reads of a source that holds more than the declared length
FixedLengthWitness ==
    /\ pc = "idle"
    /\ state = "Done"
    /\ res.len.some
    /\ res.len.val >= 2
    /\ Len(out) = Len(head) + res.len.val
    /\ Len(reads) >= 2
    /\ src # <<>>

\* a fixed-length read that meets end-of-data before body_len bytes
ShortBodyStep ==
    (/\ pc = "encode_body"
     /\ body_bytes_read < body_len
     /\ bytes_read < Len(buf)
     /\ polls' = Append(polls, Ready(0))) =>
        /\ pc' = "idle"
        /\ state' = "Done"
        /\ ret' = Ready(bytes_read)
        /\ out' = out \o Take(buf, bytes_read)
        /\ body_bytes_read' = body_bytes_read

\* C6: short-body leniency.  In fixed-length mode a read that reports
\* end-of-data while body_bytes_read < body_len ends the call with Ready
\* and the bytes accumulated so far, and the state becomes Done; a response
\* that is Done with fewer than body_len bytes read has delivered exactly
\* the bytes the source held and no error.
ShortBodyLeniency ==
    /\ [][ShortBodyStep]_vars
    /\ []((pc = "idle" /\ state = "Done" /\ res.len.some
              /\ body_bytes_read < body_len) =>
             /\ ret.kind = "Ready"
             /\ src = <<>>
             /\ Drop(out, Len(head)) = Concat(reads)
             /\ Len(out) = Len(head) + body_bytes_read)

\* C6 witness: the source gave some bytes, fewer than declared, then
\* end-of-data, and the encoder is Done
ShortBodyWitness ==
    /\ pc = "idle"
    /\ state = "Done"
    /\ res.len.some
    /\ 0 < body_bytes_read
    /\ body_bytes_read < body_len
    /\ polls # <<>>
    /\ polls[Len(polls)] = Ready(0)

\* every step taken in state Done
TerminalStep ==
    state = "Done" =>
        /\ state' = "Done"
        /\ pc' = "idle"
        /\ ret' = Ready(0)
        /\ out' = out
        /\ polls' = <<>>
        /\ UNCHANGED <<src, reads, pendings, head, head_bytes_read, body_len,
                       body_bytes_read, chunk, is_last>>

\* C7: terminal idempotence.  Once the state is Done every call returns
\* Ready(0), delivers nothing, does not read the body source, and leaves the
\* state Done and head_bytes_read, body_bytes_read, the staged chunk and
\* is_last as they were.
TerminalIdempotence == [][TerminalStep]_vars

\* C7 witness: a call was made on a fixed-length encoder that was Done
\* (the call that reaches Done in fixed-length mode reads the source; this
\* one has not)
TerminalWitness ==
    /\ pc = "idle"
    /\ state = "Done"
    /\ res.len.some
    /\ polls = <<>>
    /\ ret = Ready(0)
    /\ Len(buf) > 0

\* the bytes written into the destination during the current call: the
\* driver hands over a zeroed buffer, no byte of a head or of the source is
\* zero, and the functions that read the source write from offset 0 on
Written(b) == Cardinality({i \in 1..Len(b) : b[i] # 0})

\* a read of the body source that answers Pending
SuspendStep ==
    (/\ pc \in {"encode_body", "encode_uncomputed_chunked"}
     /\ polls' = Append(polls, Pending)) =>
        /\ pc' = "idle"
        /\ buf' = buf
        /\ IF Written(buf) = 0
           THEN ret' = Pending /\ out' = out
           ELSE ret' = Ready(Written(buf)) /\ out' = out \o Take(buf, Written(buf))
        /\ UNCHANGED <<state, head_bytes_read, body_bytes_read, chunk, is_last>>

\* C8: suspend correctness.  When the source answers Pending to a read in
\* Body or UncomputedChunked, the call returns Pending if no byte has been
\* written into the destination during the call, and Ready with exactly the
\* number of bytes written otherwise; a Pending call delivers nothing.
SuspendCorrectness == [][SuspendStep]_vars

\* C8 witness: the source suspended after an earlier read of the same call
\* had produced body bytes, and the call returned their count
SuspendWitness ==
    /\ pc = "idle"
    /\ Len(polls) >= 2
    /\ polls[Len(polls)] = Pending
    /\ polls[1].kind = "Ready"
    /\ ret.kind = "Ready"
    /\ ret.n > 0

\* C9: a zero-byte result means Done.  A call that returns Ready(0) leaves
\* the encoder in state Done.
ZeroMeansDone == (pc = "idle" /\ ret = Ready(0)) => state = "Done"

\* a read of the body source that fails
SourceFailureStep ==
    \A e \in Errors :
        polls' = Append(polls, Err(e)) =>
            /\ ret' = Err(e)
            /\ pc' = "failed"
            /\ out' = out
            /\ UNCHANGED <<src, reads, state, body_bytes_read, chunk, is_last>>

\* C10: source I/O failure.  A failed read of the body source ends the call
\* in the same step with that error: nothing is delivered, no further read
\* is made, and the state, body_bytes_read, the staged chunk and is_last are
\* as they were before the read.
SourceFailure ==
    /\ [][SourceFailureStep]_vars
    /\ [](pc = "failed" =>
             /\ ret.kind = "Err"
             /\ polls # <<>>
             /\ polls[Len(polls)] = ret
             /\ \A i \in 1..(Len(polls) - 1) : polls[i].kind = "Ready")

\* C10 witness: a read failed in the middle of a fixed-length body
SourceFailureWitness ==
    /\ pc = "failed"
    /\ state = "Body"
    /\ 0 < body_bytes_read
    /\ body_bytes_read < body_len
    /\ ret.kind = "Err"

(* ------------------------------------------------------------- liveness *)
\* encode_body with a source that does not fail
EncodeBodyNoErr ==
    /\ pc = "encode_body"
    /\ \/ EncodeBodyFull
       \/ \E n \in 0..MaxSrc : EncodeBodyReady(n)
       \/ EncodeBodyPending

\* encode_uncomputed_chunked with a source that does not fail
EncodeUncomputedNoErr ==
    /\ pc = "encode_uncomputed_chunked"
    /\ \/ EncodeUncomputedFull
       \/ \E n \in 0..MaxSrc : EncodeUncomputedReady(n)
       \/ EncodeUncomputedPending

\* the steps of a run whose body source never fails
NextNoErr ==
    \/ \E size \in BufSizes : PollRead(size)
    \/ EncodeStart
    \/ EncodeHead
    \/ EncodeBodyNoErr
    \/ EncodeUncomputedNoErr
    \/ EncodeComputedChunked

\* the source never fails, suspends at most MaxPending times and then gives
\* its bytes and end-of-data; the driver calls again after every return and
\* every call runs to its return
LiveSpec == Init /\ [][NextNoErr]_vars /\ WF_vars(NextNoErr)

\* C11: termination.  With a source that never fails and suspends finitely
\* often, and a driver that keeps calling with non-empty buffers, the
\* encoder eventually reaches Done, with or without a known length, and
\* never leaves it.
Termination ==
    /\ <>(state = "Done")
    /\ [][state = "Done" => state' = "Done"]_vars

\* C11 witness: a chunked response reached Done after the source had
\* suspended and the terminal chunk had been staged and drained
TerminationWitness ==
    /\ pc = "idle"
    /\ state = "Done"
    /\ ~res.len.some
    /\ pendings = MaxPending
    /\ chunk.some
    /\ is_last
    /\ Len(reads) >= 2

(* ------------------------------------------------- counts and chunk steps *)
\* C12: the count a call returns never exceeds the length of the
\* destination buffer it was given.
CountWithinBuffer ==
    (pc = "idle" /\ ret.kind = "Ready") => ret.n <= Len(buf)

\* one run of chunk emission, w the bytes written into the destination
\* earlier in the same call
ChunkEmissionStep ==
    pc = "encode_computed_chunked" =>
        LET w == Written(buf)
            n == Min(Len(chunk.data) - chunk.pos, Len(buf) - w)
        IN /\ chunk' = [chunk EXCEPT !.pos = chunk.pos + n]
           /\ buf' = CopyInto(buf, w, SubSeq(chunk.data, chunk.pos + 1,
                                            chunk.pos + n))
           /\ ret' = Ready(w + n)

\* C13: chunk emission copies only into free space and counts only what it
\* copied.  It copies min(staged bytes remaining, destination space
\* remaining) bytes from the staged chunk's cursor to the destination, after
\* the bytes already written in the call, advances the cursor by that
\* number, and the call returns the earlier count plus that number.
ChunkEmission == [][ChunkEmissionStep]_vars

\* a read of n bytes whose framed chunk does not fit in the space left
StagedChunkStep ==
    \A n \in 0..MaxSrc :
        (/\ pc = "encode_uncomputed_chunked"
         /\ polls' = Append(polls, Ready(n))
         /\ Len(Frame(Take(src, n))) > Len(buf) - bytes_read) =>
            /\ chunk' = Cursor(Frame(Take(src, n)))
            /\ is_last' = (n = 0)
            /\ state' = "ComputedChunked"
            /\ pc' = "encode_computed_chunked"

\* C14: staged chunk content.  When the framed chunk of a read of n bytes
\* does not fit in the remaining destination space, the staged chunk is
\* exactly hex(n), CR LF, the n payload bytes, CR LF, whatever the number
\* of head bytes written in the same call; is_last is (n = 0) and emission
\* starts within the same call.
StagedChunkContent == [][StagedChunkStep]_vars

\* a read of n bytes whose framed chunk fits in the space left
DirectWriteStep ==
    \A n \in 0..MaxSrc :
        (/\ pc = "encode_uncomputed_chunked"
         /\ polls' = Append(polls, Ready(n))
         /\ Len(Frame(Take(src, n))) <= Len(buf) - bytes_read) =>
            /\ chunk' = chunk
            /\ buf' = CopyInto(buf, bytes_read, Frame(Take(src, n)))
            /\ pc' = "idle"
            /\ ret' = Ready(bytes_read + Len(Frame(Take(src, n))))
            /\ state' = IF n = 0 THEN "Done" ELSE "UncomputedChunked"

\* C15: direct chunk write.  When the framed chunk of a read of n bytes
\* fits in the remaining destination space (the exact fit included) it is
\* written into the destination after the bytes already written, nothing
\* is staged, the call returns with the count increased by the framed size,
\* and the state becomes Done if n = 0 and stays UncomputedChunked
\* otherwise.
DirectChunkWrite == [][DirectWriteStep]_vars

(* ------------------------------------------------------ the staged chunk *)
\* part occurs in whole as a run of consecutive bytes
Occurs(part, whole) ==
    \E i \in 0..(Len(whole) - Len(part)) :
        SubSeq(whole, i + 1, i + Len(part)) = part

\* a step that leaves ComputedChunked
LeaveEmissionStep ==
    (state = "ComputedChunked" /\ state' # "ComputedChunked") =>
        /\ chunk.some
        /\ chunk.pos = Len(chunk.data)
        /\ chunk' = chunk
        /\ state' = IF is_last THEN "Done" ELSE "UncomputedChunked"

\* between calls the bytes the cursor has passed have been delivered, and
\* a chunked response that is Done has delivered the zero-length chunk
ChunkDelivered ==
    pc = "idle" =>
        /\ chunk.some => Occurs(Take(chunk.data, chunk.pos), out)
        /\ (state = "Done" /\ ~res.len.some) =>
              /\ reads # <<>>
              /\ reads[Len(reads)] = <<>>
              /\ Occurs(<<48, CR, LF, CR, LF>>, out)

PastHeadFixed ==
    pc = "idle" /\ res.len.some /\ state \in {"Body", "Done"}

\* C18 as stated: body_bytes_read <= body_len, and a call that returns on
\* the fixed-length path past the head with body_bytes_read = body_len
\* leaves the state Done.
BodyCounterDone ==
    /\ body_bytes_read <= body_len
    /\ (PastHeadFixed /\ body_bytes_read = body_len) => state = "Done"

\* C18, amended: body_bytes_read <= body_len, and a call that returns on
\* the fixed-length path past the head with body_bytes_read = body_len
\* leaves the state Done, unless body_len = 0 and no read of the source has
\* completed yet: then the state is Body.
BodyCounter ==
    /\ body_bytes_read <= body_len
    /\ (PastHeadFixed /\ body_bytes_read = body_len) =>
          \/ state = "Done"
          \/ body_len = 0 /\ reads = <<>>

\* C18 witness: the head filled the buffer exactly, the body is empty and
\* the call returned in state Body without a read of the source
BodyCounterWitness ==
    /\ PastHeadFixed
    /\ state = "Body"
    /\ body_len = 0
    /\ polls = <<>>
    /\ ret = Ready(Len(buf))

\* what holds of the head and its cursor in every state
HeadCursorInvariant ==
    /\ head_bytes_read <= Len(head)
    /\ state = "Start" => head = <<>> /\ head_bytes_read = 0
    /\ state # "Start" => head = SerializeHead(res)
    /\ state \notin {"Start", "Head"} => head_bytes_read = Len(head)

\* what holds of every step for the head and its cursor
HeadCursorStep ==
    /\ pc = "encode_head" =>
          LET n == Min(Len(head) - head_bytes_read, Len(buf))
          IN /\ head_bytes_read' = head_bytes_read + n
             /\ Take(buf', n) = SubSeq(head, head_bytes_read + 1,
                                       head_bytes_read + n)
             /\ state' = "Head" => pc' = "idle" /\ ret' = Ready(n)
    /\ pc # "encode_head" => head_bytes_read' = head_bytes_read
    /\ head' # head => state = "Start" /\ pc = "encode_start"
    /\ (state = "Head" /\ state' # "Head") =>
          /\ pc = "encode_head"
          /\ head_bytes_read < Len(head)
          /\ head_bytes_read' = Len(head)
    /\ (pc = "idle" /\ pc' # "idle" /\ state \in {"Start", "Head"}) =>
          pc' \in {"encode_start", "encode_head"}
    /\ pc = "encode_start" => pc' = "encode_head" /\ buf' = buf

\* C19: head cursor.  head_bytes_read <= len(head); every call in Start or
\* Head copies min(len(head) - head_bytes_read, buf.len()) head bytes to
\* the front of the buffer and advances head_bytes_read by that number; the
\* head is serialized once, in the first call; the state leaves Head only
\* in a call in which head_bytes_read reaches len(head).
HeadCursor == [](HeadCursorInvariant) /\ [][HeadCursorStep]_vars

\* C19 witness: after several calls with buffers that were filled, the
\* head is partly delivered
HeadCursorWitness ==
    /\ pc = "idle"
    /\ state = "Head"
    /\ head_bytes_read > 7
    /\ head_bytes_read < Len(head)
    /\ ret = Ready(Len(buf))

\* C20: whenever a call is in encode_computed_chunked, and whenever the
\* state between calls is ComputedChunked, a staged chunk is present: the
\* unwrap of self.chunk does not fail.
ChunkPresentOnDispatch ==
    /\ pc = "encode_computed_chunked" => chunk.some
    /\ (pc = "idle" /\ state = "ComputedChunked") => chunk.some

\* C20 witness: a call that began in ComputedChunked, with a chunk partly
\* drained by an earlier call, has been dispatched to chunk emission
ChunkPresentWitness ==
    /\ pc = "encode_computed_chunked"
    /\ bytes_read = 0
    /\ chunk.some
    /\ chunk.pos > 0
    /\ chunk.pos < Len(chunk.data)

====
